---- MODULE Spec2Model ----
(***************************************************************************)
(* State-machine model of the scan-session relay in src/index.js: the      *)
(* in-memory session store (activeSessions), the socket.io handlers        *)
(* session:start, scan:result, quantity:adjust, session:finish, ping and   *)
(* disconnect, and the deferred eviction timers scheduled by finish.       *)
(*                                                                         *)
(* Strings whose characters matter (item names, which are upper-cased) are *)
(* sequences of one-character strings.  Session ids are sequences of       *)
(* tokens: <<"s1">> for a client-supplied id, <<"session", c, t>> for the  *)
(* template `session_${socket.id}_${Date.now()}`, << >> for a missing      *)
(* (falsy) id.  An optional value is << >> (undefined) or <<v>>.           *)
(*                                                                         *)
(* A handler runs to completion as one step (node's event loop runs one    *)
(* callback at a time and no handler awaits), and its reads of Date.now()  *)
(* within that step return one value; the clock advances between steps.    *)
(* All eviction timers have the same delay (30000 ms), so they fire in the *)
(* order in which they were scheduled.                                     *)
(***************************************************************************)
EXTENDS Integers, Sequences, FiniteSets, TLC

VARIABLES
    activeSessions,  \* the Map: a function from session id to session object
    timers,          \* pending setTimeout callbacks, oldest first (one delay)
    connected,       \* sockets currently connected
    now,             \* the reading of Date.now()
    inp,             \* the event handled by the latest step
    out              \* messages emitted by the latest step, in order

vars == <<activeSessions, timers, connected, now, inp, out>>

----------------------------------------------------------------------------
\* Bounds of the model.

MaxTime == 1        \* the clock runs over 0..MaxTime
MaxSessions == 2    \* sessions held by the store at once
MaxItems == 2       \* item entries held by one session
MaxQty == 2         \* |quantity| of one entry
MaxTimers == 2      \* pending eviction timers

Conns == {"c1", "c2"}

NoId == << >>
RequestedIds == {<<"s1">>, <<"s2">>}
SessionIdInputs == {NoId} \cup RequestedIds

NoName == << >>
ItemNameInputs ==
    { NoName,
      <<"a", "p", "e", "l">>,
      <<"A", "P", "E", "L">>,
      <<"k", "i", "w", "i">> }

ScoringNameInputs ==
    { <<"a", "p", "e", "l">>,
      <<"A", "p", "E", "l">>,
      <<"j", "e", "r", "u", "k">>,
      <<"P", "I", "S", "A", "N", "G">>,
      <<"M", "a", "n", "g", "g", "a">>,
      <<"k", "i", "w", "i">>,
      <<"K", "I", "W", "I">> }

QuantityInputs == {<< >>, <<-1>>, <<0>>, <<2>>}
DeltaInputs == {-3, -1, 1}

----------------------------------------------------------------------------
\* String.prototype.toUpperCase on the letters the inputs use.

UpperOf ==
    [ch \in {"a", "e", "g", "i", "j", "k", "l", "m", "n", "p", "r", "s", "u", "w"} |->
        CASE ch = "a" -> "A" [] ch = "e" -> "E" [] ch = "g" -> "G"
          [] ch = "i" -> "I" [] ch = "j" -> "J" [] ch = "k" -> "K"
          [] ch = "l" -> "L" [] ch = "m" -> "M" [] ch = "n" -> "N"
          [] ch = "p" -> "P" [] ch = "r" -> "R" [] ch = "s" -> "S"
          [] ch = "u" -> "U" [] ch = "w" -> "W"]

UpperChar(ch) == IF ch \in DOMAIN UpperOf THEN UpperOf[ch] ELSE ch

ToUpperCase(s) == [i \in 1..Len(s) |-> UpperChar(s[i])]

\* The scoring table.
ITEM_POINTS ==
    (<<"A", "P", "E", "L">> :> 20)
    @@ (<<"J", "E", "R", "U", "K">> :> 15)
    @@ (<<"P", "I", "S", "A", "N", "G">> :> 10)
    @@ (<<"M", "A", "N", "G", "G", "A">> :> 25)
    @@ (<<"D", "E", "F", "A", "U", "L", "T">> :> 10)

DEFAULT == <<"D", "E", "F", "A", "U", "L", "T">>

\* The lookup without the fallback to DEFAULT.
PerItemNoDefault(key) == IF key \in DOMAIN ITEM_POINTS THEN ITEM_POINTS[key] ELSE 0

\* ITEM_POINTS[key] || ITEM_POINTS.DEFAULT
PerItem(key) ==
    IF key \in DOMAIN ITEM_POINTS /\ ITEM_POINTS[key] # 0
    THEN ITEM_POINTS[key]
    ELSE ITEM_POINTS[DEFAULT]

----------------------------------------------------------------------------
\* Object.values(session.items).reduce((s, it) => s + it.quantity, 0)

RECURSIVE SumOver(_, _, _)
SumOver(items, keys, field) ==
    IF keys = {} THEN 0
    ELSE LET k == CHOOSE x \in keys : TRUE
         IN  items[k][field] + SumOver(items, keys \ {k}, field)

SumQuantity(items) == SumOver(items, DOMAIN items, "quantity")
SumPoints(items) == SumOver(items, DOMAIN items, "totalPoints")

\* `session_${socket.id}_${Date.now()}`
SynthId(c, t) == <<"session", c, t>>

\* data?.sessionId || `session_${socket.id}_${Date.now()}`
EffectiveId(c, sid, t) == IF sid # NoId THEN sid ELSE SynthId(c, t)

\* A new session that is not marked active.
NewSessionInactive(id, c, t) ==
    [ id |-> id,
      items |-> << >>,
      totalItems |-> 0,
      totalPoints |-> 0,
      startTime |-> t,
      socketId |-> c,
      active |-> FALSE,
      lastUpdate |-> << >> ]

NewSession(id, c, t) ==
    [ id |-> id,
      items |-> << >>,
      totalItems |-> 0,
      totalPoints |-> 0,
      startTime |-> t,
      socketId |-> c,
      active |-> TRUE,
      lastUpdate |-> << >> ]

\* socket.emit replaced by io.emit: the reply goes to every connected socket.
DirectToAll(c, event, payload) == [event |-> event, to |-> connected, payload |-> payload]

\* io.emit: every connected socket; socket.emit: the socket itself.
Broadcast(event, payload) == [event |-> event, to |-> connected, payload |-> payload]
Direct(c, event, payload) == [event |-> event, to |-> {c}, payload |-> payload]

\* A Map (or plain object) with key k bound to v, and with key k deleted.
MapSet(m, k, v) == [x \in DOMAIN m \cup {k} |-> IF x = k THEN v ELSE m[x]]
MapDelete(m, k) ==
    IF DOMAIN m \subseteq {k} THEN << >> ELSE [x \in DOMAIN m \ {k} |-> m[x]]

Max(a, b) == IF a >= b THEN a ELSE b
Abs(a) == IF a >= 0 THEN a ELSE -a

\* const { quantity = 1 } = data: the default applies to an absent quantity.
QuantityOf(qopt) == IF qopt = << >> THEN 1 ELSE qopt[1]

\* The validation with the item name left unchecked.
ScanInvalidIdOnly(sid, nm) == sid = NoId

\* if (!sessionId || !itemName)
ScanInvalid(sid, nm) == sid = NoId \/ nm = NoName

\* The item mapping after a scan of `key` with `quantity` at time t.
ScanItems(items, key, quantity, t) ==
    LET perItem == PerItem(key)
        addPoints == perItem * quantity
    IN  IF key \in DOMAIN items
        THEN [items EXCEPT ![key].quantity = @ + quantity,
                           ![key].totalPoints = @ + addPoints]
        ELSE MapSet(items, key,
                    [ name |-> key,
                      quantity |-> quantity,
                      pointsPerItem |-> perItem,
                      totalPoints |-> addPoints,
                      lastScanned |-> t ])

\* Recompute with the second reduce left out: totalPoints keeps its old value.
RecomputeItemsOnly(session, items, t) ==
    [session EXCEPT !.items = items,
                    !.totalItems = SumQuantity(items),
                    !.lastUpdate = <<t>>]

\* The session with its item mapping replaced and its totals recomputed.
Recompute(session, items, t) ==
    [session EXCEPT !.items = items,
                    !.totalItems = SumQuantity(items),
                    !.totalPoints = SumPoints(items),
                    !.lastUpdate = <<t>>]

\* A snapshot taken without the totals of the session.
SnapshotNoTotals(session) ==
    [ totalItems |-> 0,
      totalPoints |-> 0,
      items |-> session.items,
      lastUpdate |-> session.lastUpdate ]

\* The snapshot object sent with scan:update and quantity:updated.
Snapshot(session) ==
    [ totalItems |-> session.totalItems,
      totalPoints |-> session.totalPoints,
      items |-> session.items,
      lastUpdate |-> session.lastUpdate ]

\* if (!session || !session.items[key])
AdjustRejected(sid, key) ==
    \/ sid \notin DOMAIN activeSessions
    \/ key \notin DOMAIN activeSessions[sid].items

\* The new quantity without the clamp at zero.
NewQtyUnclamped(quantity, delta) == quantity + delta

\* Math.max(0, item.quantity + delta)
NewQty(quantity, delta) == Max(0, quantity + delta)

\* AdjustItems without the assignment to item.totalPoints.
AdjustItemsQuantityOnly(items, key, newQty, t) ==
    IF newQty = 0
    THEN MapDelete(items, key)
    ELSE [items EXCEPT ![key].quantity = newQty,
                       ![key].lastScanned = t]

\* The item mapping after the entry `key` is set to newQty at time t.
AdjustItems(items, key, newQty, t) ==
    IF newQty = 0
    THEN MapDelete(items, key)
    ELSE [items EXCEPT ![key].quantity = newQty,
                       ![key].totalPoints = items[key].pointsPerItem * newQty,
                       ![key].lastScanned = t]

\* The summary with the operands of the duration exchanged.
SummaryReversed(sid, session, t) ==
    [ sessionId |-> sid,
      totalItems |-> session.totalItems,
      totalPoints |-> session.totalPoints,
      items |-> session.items,
      duration |-> session.startTime - t,
      finishedAt |-> t ]

\* The summary object sent with session:finished.
Summary(sid, session, t) ==
    [ sessionId |-> sid,
      totalItems |-> session.totalItems,
      totalPoints |-> session.totalPoints,
      items |-> session.items,
      duration |-> t - session.startTime,
      finishedAt |-> t ]

----------------------------------------------------------------------------
Init ==
    /\ activeSessions = << >>
    /\ timers = << >>
    /\ connected = {}
    /\ now = 0
    /\ inp = [kind |-> "listen"]
    /\ out = << >>

\* io.on("connection"): the socket is registered and greeted.
Connect(c) ==
    /\ c \notin connected
    /\ connected' = connected \cup {c}
    /\ inp' = [kind |-> "connection", conn |-> c]
    /\ out' = << Direct(c, "welcome", [socketId |-> c]) >>
    /\ UNCHANGED <<activeSessions, timers, now>>

\* A disconnect that also drops the sessions the socket started.
DisconnectCleanup(c) ==
    /\ c \in connected
    /\ connected' = connected \ {c}
    /\ inp' = [kind |-> "disconnect", conn |-> c]
    /\ out' = << >>
    /\ LET kept == {id \in DOMAIN activeSessions : activeSessions[id].socketId # c}
       IN  activeSessions' = IF kept = {} THEN << >> ELSE [id \in kept |-> activeSessions[id]]
    /\ UNCHANGED <<timers, now>>

\* socket.on("disconnect"): only logs.
Disconnect(c) ==
    /\ c \in connected
    /\ connected' = connected \ {c}
    /\ inp' = [kind |-> "disconnect", conn |-> c]
    /\ out' = << >>
    /\ UNCHANGED <<activeSessions, timers, now>>

\* socket.on("ping")
Ping(c) ==
    /\ c \in connected
    /\ inp' = [kind |-> "ping", conn |-> c]
    /\ out' = << Direct(c, "pong", [timestamp |-> now]) >>
    /\ UNCHANGED <<activeSessions, timers, connected, now>>

\* The clock advances between handlers.
Tick ==
    /\ now < MaxTime
    /\ now' = now + 1
    /\ inp' = [kind |-> "tick"]
    /\ out' = << >>
    /\ UNCHANGED <<activeSessions, timers, connected>>

\* socket.on("session:start")
SessionStart(c, sid) ==
    /\ c \in connected
    /\ inp' = [kind |-> "session:start", conn |-> c, sessionId |-> sid]
    /\ LET sessionId == EffectiveId(c, sid, now)
       IN  /\ \/ sessionId \in DOMAIN activeSessions
              \/ Cardinality(DOMAIN activeSessions) < MaxSessions
           /\ activeSessions' = MapSet(activeSessions, sessionId, NewSession(sessionId, c, now))
           /\ out' = << Broadcast("session:started", [sessionId |-> sessionId, timestamp |-> now]),
                        Direct(c, "session:confirmed", [sessionId |-> sessionId, status |-> "active"]) >>
    /\ UNCHANGED <<timers, connected, now>>

\* socket.on("scan:result")
ScanResult(c, sid, nm, qopt) ==
    /\ c \in connected
    /\ inp' = [kind |-> "scan:result", conn |-> c, sessionId |-> sid,
               itemName |-> nm, quantity |-> qopt]
    /\ IF ScanInvalid(sid, nm)
       THEN /\ out' = << Direct(c, "error",
                            [message |-> "Invalid payload", sessionId |-> sid, itemName |-> nm]) >>
            /\ UNCHANGED activeSessions
       ELSE IF sid \notin DOMAIN activeSessions
       THEN /\ out' = << Direct(c, "error",
                            [message |-> "Session not found", sessionId |-> sid]) >>
            /\ UNCHANGED activeSessions
       ELSE LET session == activeSessions[sid]
                key == ToUpperCase(nm)
                items == ScanItems(session.items, key, QuantityOf(qopt), now)
                after == Recompute(session, items, now)
            IN  /\ Cardinality(DOMAIN items) <= MaxItems
                /\ Abs(items[key].quantity) <= MaxQty
                /\ activeSessions' = [activeSessions EXCEPT ![sid] = after]
                /\ out' = << Broadcast("scan:update",
                                [sessionId |-> sid, item |-> items[key], session |-> Snapshot(after)]),
                             Broadcast("inventory:update",
                                [sessionId |-> sid, itemName |-> key,
                                 quantity |-> items[key].quantity, lastUpdate |-> after.lastUpdate]),
                             Direct(c, "scan:confirmed",
                                [success |-> TRUE, item |-> items[key],
                                 totalPoints |-> after.totalPoints]) >>
    /\ UNCHANGED <<timers, connected, now>>

\* socket.on("quantity:adjust")
QuantityAdjust(c, sid, nm, delta) ==
    /\ c \in connected
    /\ inp' = [kind |-> "quantity:adjust", conn |-> c, sessionId |-> sid,
               itemName |-> nm, delta |-> delta]
    /\ LET key == ToUpperCase(nm)
       IN  IF AdjustRejected(sid, key)
           THEN /\ out' = << Direct(c, "error",
                                [message |-> "Session or item not found",
                                 sessionId |-> sid, itemName |-> key]) >>
                /\ UNCHANGED activeSessions
           ELSE LET session == activeSessions[sid]
                    newQty == NewQty(session.items[key].quantity, delta)
                    items == AdjustItems(session.items, key, newQty, now)
                    after == Recompute(session, items, now)
                IN  /\ newQty <= MaxQty
                    /\ activeSessions' = [activeSessions EXCEPT ![sid] = after]
                    /\ out' = << Broadcast("quantity:updated",
                                    [sessionId |-> sid, itemName |-> key,
                                     newQuantity |-> newQty, session |-> Snapshot(after)]),
                                 Broadcast("inventory:update",
                                    [sessionId |-> sid, itemName |-> key,
                                     quantity |-> newQty, lastUpdate |-> after.lastUpdate]) >>
    /\ UNCHANGED <<timers, connected, now>>

\* A finish that turns away a session which is already inactive.
SessionFinishOnce(c, sid) ==
    /\ c \in connected
    /\ inp' = [kind |-> "session:finish", conn |-> c, sessionId |-> sid]
    /\ IF sid \notin DOMAIN activeSessions \/ ~activeSessions[sid].active
       THEN /\ out' = << Direct(c, "error", [message |-> "Session not found"]) >>
            /\ UNCHANGED <<activeSessions, timers>>
       ELSE LET session == activeSessions[sid]
            IN  /\ Len(timers) < MaxTimers
                /\ out' = << Broadcast("session:finished",
                                [summary |-> Summary(sid, session, now)]),
                             Broadcast("inventory:reset", [sessionId |-> sid]) >>
                /\ activeSessions' = [activeSessions EXCEPT ![sid].active = FALSE]
                /\ timers' = Append(timers, sid)
    /\ UNCHANGED <<connected, now>>

\* socket.on("session:finish")
SessionFinish(c, sid) ==
    /\ c \in connected
    /\ inp' = [kind |-> "session:finish", conn |-> c, sessionId |-> sid]
    /\ IF sid \notin DOMAIN activeSessions
       THEN /\ out' = << Direct(c, "error", [message |-> "Session not found"]) >>
            /\ UNCHANGED <<activeSessions, timers>>
       ELSE LET session == activeSessions[sid]
            IN  /\ Len(timers) < MaxTimers
                /\ out' = << Broadcast("session:finished",
                                [summary |-> Summary(sid, session, now)]),
                             Broadcast("inventory:reset", [sessionId |-> sid]) >>
                /\ activeSessions' = [activeSessions EXCEPT ![sid].active = FALSE]
                /\ timers' = Append(timers, sid)
    /\ UNCHANGED <<connected, now>>

\* A timer that is dropped without running its callback.
EvictCancelled ==
    /\ timers # << >>
    /\ inp' = [kind |-> "timeout", sessionId |-> Head(timers)]
    /\ timers' = Tail(timers)
    /\ out' = << >>
    /\ UNCHANGED <<activeSessions, connected, now>>

\* A callback that clears the whole store.
EvictAll ==
    /\ timers # << >>
    /\ inp' = [kind |-> "timeout", sessionId |-> Head(timers)]
    /\ activeSessions' = << >>
    /\ timers' = Tail(timers)
    /\ out' = << >>
    /\ UNCHANGED <<connected, now>>

\* The setTimeout callback scheduled by session:finish.
Evict ==
    /\ timers # << >>
    /\ inp' = [kind |-> "timeout", sessionId |-> Head(timers)]
    /\ activeSessions' = MapDelete(activeSessions, Head(timers))
    /\ timers' = Tail(timers)
    /\ out' = << >>
    /\ UNCHANGED <<connected, now>>

\* One event handled by the server, its clients being the sockets C.  A
\* session:start carries an id from S (NoId: none); the other events name
\* an id from S, an id the store holds (the server announces them) or none.
\* Item names are drawn from N, quantities from Q and deltas from D.
Handle(C, S, N, Q, D) ==
    \/ \E c \in C : Connect(c)
    \/ \E c \in C : Disconnect(c)
    \/ \E c \in C : Ping(c)
    \/ \E c \in C, sid \in S : SessionStart(c, sid)
    \/ \E c \in C, sid \in S \cup {NoId} \cup DOMAIN activeSessions, nm \in N, qopt \in Q :
          ScanResult(c, sid, nm, qopt)
    \/ \E c \in C, sid \in S \cup {NoId} \cup DOMAIN activeSessions, nm \in N, delta \in D :
          QuantityAdjust(c, sid, nm, delta)
    \/ \E c \in C, sid \in S \cup {NoId} \cup DOMAIN activeSessions : SessionFinish(c, sid)
    \/ Evict

\* Two clients working on one session id with one item code, as time passes.
Next ==
    \/ Tick
    \/ Handle(Conns, {<<"s1">>}, {NoName, <<"a", "p", "e", "l">>}, {<< >>}, {-1})

Spec == Init /\ [][Next]_vars

\* The eviction callback runs once its delay has elapsed.
FairSpec == Spec /\ WF_vars(Evict)

\* One client and one session id at one clock reading, with several item
\* codes, quantities and deltas.
NextItems == Handle({"c1"}, {<<"s1">>}, ItemNameInputs, QuantityInputs, DeltaInputs)

SpecItems == Init /\ [][NextItems]_vars

\* One client and one session id at one clock reading, with the codes of the
\* scoring table in mixed case.
NextScoring == Handle({"c1"}, {<<"s1">>}, ScoringNameInputs, {<< >>}, {-1})

SpecScoring == Init /\ [][NextScoring]_vars

\* One client at one clock reading, starting sessions with a requested id
\* and without one (a synthesized id), one item code.
NextSessions == Handle({"c1"}, {NoId, <<"s1">>}, {<<"a", "p", "e", "l">>}, {<< >>}, {-1})

SpecSessions == Init /\ [][NextSessions]_vars

----------------------------------------------------------------------------
\* Properties.

Sessions == DOMAIN activeSessions
ItemsOf(id) == activeSessions[id].items
LastEvent == IF out = << >> THEN "" ELSE out[1].event

\* C1: every stored session has totalItems equal to the sum of its entries'
\* quantities and totalPoints equal to the sum of its entries' totalPoints.
C1_TotalsAreSums ==
    \A id \in Sessions :
        /\ activeSessions[id].totalItems = SumQuantity(ItemsOf(id))
        /\ activeSessions[id].totalPoints = SumPoints(ItemsOf(id))

\* A session holding two entries after an adjustment, with non-zero totals.
C1_Witness ==
    /\ LastEvent = "quantity:updated"
    /\ \E id \in Sessions :
          /\ Cardinality(DOMAIN ItemsOf(id)) = 2
          /\ activeSessions[id].totalItems = 3
          /\ activeSessions[id].totalPoints = 50

\* C2 (as claimed): every entry of every stored session has quantity >= 1.
C2_QuantityAtLeastOne ==
    \A id \in Sessions : \A k \in DOMAIN ItemsOf(id) : ItemsOf(id)[k].quantity >= 1

\* C3: every entry has totalPoints = quantity * pointsPerItem, and an entry
\* that a step keeps has the pointsPerItem it had before the step.
C3_EntryPoints ==
    \A id \in Sessions : \A k \in DOMAIN ItemsOf(id) :
        ItemsOf(id)[k].totalPoints = ItemsOf(id)[k].quantity * ItemsOf(id)[k].pointsPerItem

C3_PerItemKept ==
    \A id \in Sessions \cap DOMAIN activeSessions' :
        \A k \in DOMAIN ItemsOf(id) \cap DOMAIN activeSessions'[id].items :
            activeSessions'[id].items[k].pointsPerItem = ItemsOf(id)[k].pointsPerItem

C3_PointsPerItemFixed == []C3_EntryPoints /\ [][C3_PerItemKept]_vars

\* A repeat scan (in lower case) of an entry, now worth 2 * 20, beside
\* another entry.
C3_Witness ==
    /\ inp.kind = "scan:result"
    /\ inp.itemName = <<"a", "p", "e", "l">>
    /\ \E id \in Sessions :
          /\ Cardinality(DOMAIN ItemsOf(id)) = 2
          /\ ItemsOf(id)[<<"A", "P", "E", "L">>].quantity = 2
          /\ ItemsOf(id)[<<"A", "P", "E", "L">>].totalPoints = 40

\* C4 (as claimed): a session:start whose effective id is already in the
\* store does not replace the stored session, so that session's items and
\* totals are as they were before the start.
C4_StartKeepsExisting ==
    [][ (/\ inp'.kind = "session:start"
         /\ EffectiveId(inp'.conn, inp'.sessionId, now) \in Sessions)
        => LET id == EffectiveId(inp'.conn, inp'.sessionId, now)
           IN  /\ activeSessions'[id].items = activeSessions[id].items
               /\ activeSessions'[id].totalItems = activeSessions[id].totalItems
               /\ activeSessions'[id].totalPoints = activeSessions[id].totalPoints ]_vars

\* C5 (as claimed): no step removes from the store a session whose active
\* flag is true.
C5_ActiveNeverDeleted ==
    [][ \A id \in Sessions :
          activeSessions[id].active => id \in DOMAIN activeSessions' ]_vars

\* The reply to a lookup of a session id that fails in scan:result.
NotFoundReply(c, sid) ==
    << Direct(c, "error", [message |-> "Session not found", sessionId |-> sid]) >>

\* C6 (as claimed): a scan:result with a session id and an item name whose
\* id is absent from the store or names a session with active = FALSE gets
\* the 'Session not found' error alone and changes no session.
C6_InactiveScanRejected ==
    [][ (/\ inp'.kind = "scan:result"
         /\ inp'.sessionId # NoId
         /\ inp'.itemName # NoName
         /\ \/ inp'.sessionId \notin Sessions
            \/ ~activeSessions[inp'.sessionId].active)
        => /\ activeSessions' = activeSessions
           /\ out' = NotFoundReply(inp'.conn, inp'.sessionId) ]_vars

\* An accepted session:finish has just been handled for session id.
FinishAccepted(id) ==
    /\ inp.kind = "session:finish"
    /\ inp.sessionId = id
    /\ LastEvent = "session:finished"

C7_Evicted == \A id \in RequestedIds : FinishAccepted(id) ~> (id \notin Sessions)

\* A pending timer stays pending, in its place, until it fires, and its
\* firing leaves its id absent from the store.
C7_TimerKept ==
    \/ timers' = timers
    \/ \E id \in Sessions : timers' = Append(timers, id)
    \/ /\ timers # << >>
       /\ timers' = Tail(timers)
       /\ inp'.kind = "timeout"
       /\ Head(timers) \notin DOMAIN activeSessions'

C7_FinishOfAbsent ==
    (/\ inp'.kind = "session:finish"
     /\ inp'.sessionId \notin Sessions)
    => out' = << Direct(inp'.conn, "error", [message |-> "Session not found"]) >>

C7_ScanOfAbsent ==
    (/\ inp'.kind = "scan:result"
     /\ inp'.sessionId # NoId
     /\ inp'.itemName # NoName
     /\ inp'.sessionId \notin Sessions)
    => out' = NotFoundReply(inp'.conn, inp'.sessionId)

\* C7: under FairSpec an accepted finish of S leads to a state with S absent
\* from the store; no step cancels a pending timer; and while S is absent a
\* session:finish naming S, and a scan:result naming S and an item (one that
\* passes the payload validation and reaches the lookup), gets the
\* 'Session not found' error as its only message.
C7_EvictionFollowsFinish ==
    /\ C7_Evicted
    /\ [][C7_TimerKept /\ C7_FinishOfAbsent /\ C7_ScanOfAbsent]_vars

\* S was finished twice and evicted once: it is absent, a second timer for it
\* is still pending, and a scan naming it has been refused.
C7_Witness ==
    /\ inp.kind = "scan:result"
    /\ inp.sessionId = <<"s1">>
    /\ inp.itemName # NoName
    /\ inp.sessionId \notin Sessions
    /\ timers = << <<"s1">> >>
    /\ out = NotFoundReply(inp.conn, inp.sessionId)

\* The step sent one error to socket c alone and changed neither the store
\* nor the pending timers.
Rejected(c) ==
    /\ activeSessions' = activeSessions
    /\ timers' = timers
    /\ Len(out') = 1
    /\ out'[1].event = "error"
    /\ out'[1].to = {c}

C8_Step ==
    /\ (/\ inp'.kind = "scan:result"
         /\ \/ inp'.sessionId = NoId
            \/ inp'.itemName = NoName
            \/ inp'.sessionId \notin Sessions)
        => Rejected(inp'.conn)
    /\ (/\ inp'.kind = "session:finish"
         /\ inp'.sessionId \notin Sessions)
        => Rejected(inp'.conn)
    /\ (/\ inp'.kind = "quantity:adjust"
         /\ \/ inp'.sessionId \notin Sessions
            \/ ToUpperCase(inp'.itemName) \notin DOMAIN ItemsOf(inp'.sessionId))
        => Rejected(inp'.conn)
    /\ inp'.kind = "quantity:adjust"
        => \A id \in DOMAIN activeSessions' :
              /\ id \in Sessions
              /\ DOMAIN activeSessions'[id].items \subseteq DOMAIN ItemsOf(id)

\* C8: every rejected inbound event leaves the store and the pending timers
\* unchanged and emits one error to the initiating socket only, and no
\* quantity:adjust adds an item entry.
C8_RejectionsChangeNothing == [][C8_Step]_vars

\* An adjustment of a code the (finished, not yet evicted) session has no
\* entry for, refused while an eviction timer is pending.
C8_Witness ==
    /\ inp.kind = "quantity:adjust"
    /\ inp.sessionId \in Sessions
    /\ inp.itemName # NoName
    /\ timers # << >>
    /\ Len(out) = 1
    /\ out[1].event = "error"
    /\ out[1].payload.message = "Session or item not found"

C9_Step ==
    (/\ inp'.kind = "quantity:adjust"
     /\ inp'.sessionId \in Sessions
     /\ ToUpperCase(inp'.itemName) \in DOMAIN ItemsOf(inp'.sessionId))
    => LET sid == inp'.sessionId
           key == ToUpperCase(inp'.itemName)
           sum == ItemsOf(sid)[key].quantity + inp'.delta
           after == activeSessions'[sid].items
       IN  /\ out'[1].event = "quantity:updated"
           /\ out'[1].payload.newQuantity >= 0
           /\ IF sum <= 0
              THEN /\ key \notin DOMAIN after
                   /\ out'[1].payload.newQuantity = 0
              ELSE /\ key \in DOMAIN after
                   /\ after[key].quantity = sum
                   /\ after[key].totalPoints = sum * ItemsOf(sid)[key].pointsPerItem
                   /\ out'[1].payload.newQuantity = sum

\* C9: an accepted quantity:adjust of an entry with quantity q by delta d
\* deletes the entry and broadcasts newQuantity 0 when q + d <= 0, and
\* otherwise sets quantity to q + d and totalPoints to (q + d) * pointsPerItem;
\* the broadcast newQuantity is never negative.
C9_AdjustClamps == [][C9_Step]_vars

\* A delta of -3 on an entry of at most MaxQty: the sum is negative, the
\* entry is gone and newQuantity 0 was broadcast.
C9_Witness ==
    /\ inp.kind = "quantity:adjust"
    /\ inp.delta = -3
    /\ LastEvent = "quantity:updated"
    /\ out[1].payload.newQuantity = 0
    /\ ToUpperCase(inp.itemName) \notin DOMAIN ItemsOf(inp.sessionId)

UpperLetters ==
    { "A", "B", "C", "D", "E", "F", "G", "H", "I", "J", "K", "L", "M",
      "N", "O", "P", "Q", "R", "S", "T", "U", "V", "W", "X", "Y", "Z" }

\* The points the scoring table gives an upper-case code.
TablePoints(key) ==
    CASE key = <<"A", "P", "E", "L">> -> 20
      [] key = <<"J", "E", "R", "U", "K">> -> 15
      [] key = <<"P", "I", "S", "A", "N", "G">> -> 10
      [] key = <<"M", "A", "N", "G", "G", "A">> -> 25
      [] OTHER -> 10

\* Two codes that differ at most in the case of their letters.
SameCode(a, b) ==
    /\ Len(a) = Len(b)
    /\ \A i \in 1..Len(a) :
          \/ a[i] = b[i]
          \/ a[i] \in DOMAIN UpperOf /\ UpperOf[a[i]] = b[i]
          \/ b[i] \in DOMAIN UpperOf /\ UpperOf[b[i]] = a[i]

\* Every entry is keyed by its upper-case name and carries the table's
\* points for it.
C10_Entries ==
    \A id \in Sessions : \A k \in DOMAIN ItemsOf(id) :
        /\ \A i \in 1..Len(k) : k[i] \in UpperLetters
        /\ ItemsOf(id)[k].name = k
        /\ ItemsOf(id)[k].pointsPerItem = TablePoints(k)
        /\ ItemsOf(id)[k].pointsPerItem # 0

\* An accepted scan touches the one entry whose key is the scanned code in
\* upper case: it adds to that entry when the session has it, creates it
\* otherwise, and no second entry for the same code appears.
C10_Step ==
    (/\ inp'.kind = "scan:result"
     /\ inp'.sessionId \in Sessions
     /\ inp'.itemName # NoName)
    => LET sid == inp'.sessionId
           after == activeSessions'[sid].items
       IN  \E key \in DOMAIN after :
              /\ SameCode(inp'.itemName, key)
              /\ DOMAIN after = DOMAIN ItemsOf(sid) \cup {key}
              /\ \A k \in DOMAIN after : SameCode(k, key) => k = key
              /\ after[key].quantity =
                    (IF key \in DOMAIN ItemsOf(sid) THEN ItemsOf(sid)[key].quantity ELSE 0)
                    + QuantityOf(inp'.quantity)

\* C10: item codes are resolved case-insensitively: an entry is keyed by the
\* upper-cased code, codes differing only in case accumulate into one entry,
\* and an entry's pointsPerItem is the table's value for the upper-cased code
\* (APEL 20, JERUK 15, PISANG 10, MANGGA 25) or 10 when unmapped, never 0.
C10_CaseInsensitiveScoring == []C10_Entries /\ [][C10_Step]_vars

\* "ApEl" scanned into a session that holds APEL (20) and the unmapped KIWI
\* (10): the scan went to the APEL entry.
C10_Witness ==
    /\ inp.kind = "scan:result"
    /\ inp.itemName = <<"A", "p", "E", "l">>
    /\ \E id \in Sessions :
          /\ DOMAIN ItemsOf(id) = { <<"A", "P", "E", "L">>, <<"K", "I", "W", "I">> }
          /\ ItemsOf(id)[<<"A", "P", "E", "L">>].quantity = 2
          /\ ItemsOf(id)[<<"A", "P", "E", "L">>].pointsPerItem = 20
          /\ ItemsOf(id)[<<"K", "I", "W", "I">>].pointsPerItem = 10

\* C11 (as claimed): a session:start without a session id resolves to an id
\* that is not in the store, so neither an earlier start without an id nor
\* any stored session has it.
C11_SynthesizedIdFresh ==
    [][ (/\ inp'.kind = "session:start"
         /\ inp'.sessionId = NoId)
        => EffectiveId(inp'.conn, NoId, now) \notin Sessions ]_vars

\* C12: an accepted session:finish (its id is in the store) emits a
\* session:finished broadcast whose summary has the session's totalItems,
\* totalPoints and items as they were when the finish arrived and a duration
\* of now - startTime >= 0, then an inventory:reset broadcast for the same id;
\* after it the session is in the store with active = FALSE and one timer for
\* its id has been appended to the pending timers.
C12_Step ==
    (/\ inp'.kind = "session:finish"
     /\ inp'.sessionId \in Sessions)
    => LET sid == inp'.sessionId
           session == activeSessions[sid]
           summary == out'[1].payload.summary
       IN  /\ Len(out') = 2
           /\ out'[1].event = "session:finished"
           /\ out'[1].to = connected
           /\ summary.sessionId = sid
           /\ summary.totalItems = session.totalItems
           /\ summary.totalPoints = session.totalPoints
           /\ summary.items = session.items
           /\ summary.duration = now - session.startTime
           /\ summary.duration >= 0
           /\ summary.finishedAt = now
           /\ out'[2].event = "inventory:reset"
           /\ out'[2].to = connected
           /\ out'[2].payload.sessionId = sid
           /\ sid \in DOMAIN activeSessions'
           /\ activeSessions'[sid].active = FALSE
           /\ activeSessions'[sid].items = session.items
           /\ timers' = Append(timers, sid)

C12_FinishSummary == [][C12_Step]_vars

\* A finish, one clock reading after the start, of a session holding an entry.
C12_Witness ==
    /\ inp.kind = "session:finish"
    /\ LastEvent = "session:finished"
    /\ out[1].payload.summary.duration = 1
    /\ out[1].payload.summary.totalItems >= 1
    /\ out[1].payload.summary.items # << >>
    /\ inp.sessionId \in Sessions
    /\ ~activeSessions[inp.sessionId].active
    /\ timers # << >>

\* C13: an accepted scan:result (id and item name present, id in the store)
\* emits exactly three messages in this order: a scan:update broadcast with
\* the entry and the session's totals and items as they are after the scan,
\* an inventory:update broadcast with the entry's quantity after the scan,
\* and a scan:confirmed sent to the scanning socket alone.
C13_Step ==
    (/\ inp'.kind = "scan:result"
     /\ inp'.sessionId \in Sessions
     /\ inp'.itemName # NoName)
    => LET sid == inp'.sessionId
           key == ToUpperCase(inp'.itemName)
           after == activeSessions'[sid]
       IN  /\ Len(out') = 3
           /\ key \in DOMAIN after.items
           /\ out'[1].event = "scan:update"
           /\ out'[1].to = connected
           /\ out'[1].payload.sessionId = sid
           /\ out'[1].payload.item = after.items[key]
           /\ out'[1].payload.session.items = after.items
           /\ out'[1].payload.session.totalItems = after.totalItems
           /\ out'[1].payload.session.totalPoints = after.totalPoints
           /\ out'[1].payload.session.lastUpdate = after.lastUpdate
           /\ out'[2].event = "inventory:update"
           /\ out'[2].to = connected
           /\ out'[2].payload.sessionId = sid
           /\ out'[2].payload.itemName = key
           /\ out'[2].payload.quantity = after.items[key].quantity
           /\ out'[3].event = "scan:confirmed"
           /\ out'[3].to = {inp'.conn}
           /\ out'[3].payload.item = after.items[key]
           /\ out'[3].payload.totalPoints = after.totalPoints

C13_ScanMessages == [][C13_Step]_vars

\* A repeat scan while two sockets are connected: the broadcasts reach both,
\* the acknowledgment one.
C13_Witness ==
    /\ inp.kind = "scan:result"
    /\ Len(out) = 3
    /\ connected = Conns
    /\ out[1].payload.item.quantity = 2
    /\ out[1].payload.session.totalPoints = 40
    /\ out[3].to = {inp.conn}

BroadcastEvents ==
    {"session:started", "scan:update", "inventory:update", "quantity:updated",
     "session:finished", "inventory:reset"}

DirectEvents == {"session:confirmed", "scan:confirmed", "error", "pong"}

\* C14: every message a step emits with a broadcast event goes to exactly the
\* sockets connected when it is emitted, whichever socket started the
\* session; every message with a direct event goes to the socket whose event
\* is handled and to no other; a socket that connects receives from that
\* step nothing but its own welcome.
C14_Step ==
    /\ \A i \in 1..Len(out') :
          /\ out'[i].event \in BroadcastEvents => out'[i].to = connected
          /\ out'[i].event \in DirectEvents => out'[i].to = {inp'.conn}
          /\ out'[i].event \in BroadcastEvents \cup DirectEvents \cup {"welcome"}
    /\ inp'.kind = "connection" =>
          /\ Len(out') = 1
          /\ out'[1].event = "welcome"
          /\ out'[1].to = {inp'.conn}
          /\ inp'.conn \notin connected

C14_Delivery == [][C14_Step]_vars

\* A socket other than the one that started the session scans into it: the
\* broadcast reaches both sockets, the starter included.
C14_Witness ==
    /\ inp.kind = "scan:result"
    /\ LastEvent = "scan:update"
    /\ out[1].to = Conns
    /\ activeSessions[inp.sessionId].socketId # inp.conn
    /\ out[3].to = {inp.conn}

\* C15: after a session:start the store holds, under the requested id or,
\* when none was sent, under an id made up by the server, a session with no
\* items, totalItems = 0, totalPoints = 0 and active = TRUE; the step emits
\* a session:started broadcast and then a session:confirmed to the starting
\* socket alone, both naming that id.
C15_Step ==
    inp'.kind = "session:start"
    => \E id \in DOMAIN activeSessions' :
          /\ inp'.sessionId # NoId => id = inp'.sessionId
          /\ inp'.sessionId = NoId => id \notin RequestedIds \cup {NoId}
          /\ activeSessions'[id].id = id
          /\ activeSessions'[id].items = << >>
          /\ activeSessions'[id].totalItems = 0
          /\ activeSessions'[id].totalPoints = 0
          /\ activeSessions'[id].active = TRUE
          /\ activeSessions'[id].socketId = inp'.conn
          /\ Len(out') = 2
          /\ out'[1].event = "session:started"
          /\ out'[1].to = connected
          /\ out'[1].payload.sessionId = id
          /\ out'[2].event = "session:confirmed"
          /\ out'[2].to = {inp'.conn}
          /\ out'[2].payload.sessionId = id

C15_StartCreates == [][C15_Step]_vars

\* A start without an id, beside a session with a requested id that holds
\* an entry.
C15_Witness ==
    /\ inp.kind = "session:start"
    /\ inp.sessionId = NoId
    /\ LastEvent = "session:started"
    /\ out[1].payload.sessionId \in Sessions \ RequestedIds
    /\ \E id \in Sessions \cap RequestedIds : ItemsOf(id) # << >>

\* C16: a session:finish naming a stored session whose active flag is
\* already FALSE emits no error but the session:finished and inventory:reset
\* broadcasts, leaves active = FALSE and appends one more timer for the id
\* to the pending timers; a timer that fires removes from the store whatever
\* is held under its id and leaves the other timers pending.
C16_Step ==
    /\ (/\ inp'.kind = "session:finish"
        /\ inp'.sessionId \in Sessions
        /\ ~activeSessions[inp'.sessionId].active)
       => /\ Len(out') = 2
          /\ out'[1].event = "session:finished"
          /\ out'[2].event = "inventory:reset"
          /\ \A i \in 1..2 : out'[i].to = connected
          /\ inp'.sessionId \in DOMAIN activeSessions'
          /\ ~activeSessions'[inp'.sessionId].active
          /\ Len(timers') = Len(timers) + 1
          /\ timers'[Len(timers')] = inp'.sessionId
          /\ \A i \in 1..Len(timers) : timers'[i] = timers[i]
    /\ inp'.kind = "timeout"
       => /\ timers # << >>
          /\ inp'.sessionId = Head(timers)
          /\ inp'.sessionId \notin DOMAIN activeSessions'
          /\ timers' = Tail(timers)

C16_RefinishAccepted == [][C16_Step]_vars

\* A second finish of an inactive session: two timers for the one id are
\* pending.
C16_Witness ==
    /\ inp.kind = "session:finish"
    /\ LastEvent = "session:finished"
    /\ Len(timers) = 2
    /\ timers[1] = timers[2]
    /\ timers[1] = inp.sessionId
    /\ inp.sessionId \in Sessions

\* C18: a scan:result, quantity:adjust or session:finish leaves every stored
\* session other than the one it names as it was and adds or removes no
\* session; a timer that fires removes no session other than the one stored
\* under its id and changes none.
C18_Step ==
    /\ inp'.kind \in {"scan:result", "quantity:adjust", "session:finish"}
       => /\ DOMAIN activeSessions' = Sessions
          /\ \A id \in Sessions \ {inp'.sessionId} :
                activeSessions'[id] = activeSessions[id]
    /\ inp'.kind = "timeout"
       => /\ Sessions \ {inp'.sessionId} \subseteq DOMAIN activeSessions'
          /\ DOMAIN activeSessions' \subseteq Sessions
          /\ \A id \in Sessions \ {inp'.sessionId} :
                activeSessions'[id] = activeSessions[id]

C18_OtherSessionsKept == [][C18_Step]_vars

\* A timer has fired and removed its session while another session, holding
\* an entry, stays in the store.
C18_Witness ==
    /\ inp.kind = "timeout"
    /\ inp.sessionId \notin Sessions
    /\ \E id \in Sessions : ItemsOf(id) # << >> /\ activeSessions[id].active

\* C19: a connection, disconnect or ping leaves the store and the pending
\* timers unchanged, and a scan:result, quantity:adjust or session:finish
\* naming a stored session (and, for an adjust, a stored entry) is accepted
\* from any socket, whether or not it is the one that started the session
\* and whether or not that one is still connected.
C19_Step ==
    /\ inp'.kind \in {"connection", "disconnect", "ping"}
       => /\ activeSessions' = activeSessions
          /\ timers' = timers
    /\ (/\ inp'.kind = "scan:result"
        /\ inp'.sessionId \in Sessions
        /\ inp'.itemName # NoName)
       => /\ out'[1].event = "scan:update"
          /\ ToUpperCase(inp'.itemName) \in DOMAIN activeSessions'[inp'.sessionId].items
    /\ (/\ inp'.kind = "quantity:adjust"
        /\ inp'.sessionId \in Sessions
        /\ ToUpperCase(inp'.itemName) \in DOMAIN ItemsOf(inp'.sessionId))
       => /\ out'[1].event = "quantity:updated"
          /\ activeSessions'[inp'.sessionId].totalItems
                # activeSessions[inp'.sessionId].totalItems
    /\ (/\ inp'.kind = "session:finish"
        /\ inp'.sessionId \in Sessions)
       => /\ out'[1].event = "session:finished"
          /\ ~activeSessions'[inp'.sessionId].active

C19_LifecycleLeavesSessions == [][C19_Step]_vars

\* The socket that started the session has disconnected; another socket
\* scans into the session, which still holds what the starter scanned.
C19_Witness ==
    /\ inp.kind = "scan:result"
    /\ LastEvent = "scan:update"
    /\ activeSessions[inp.sessionId].socketId # inp.conn
    /\ activeSessions[inp.sessionId].socketId \notin connected
    /\ activeSessions[inp.sessionId].totalItems = 2

====
